---- MODULE Spec2Model ----
(***************************************************************************)
(* A model of the Transformer of andy-nn/sequelize:                        *)
(*   - Transformer.generate, the autoregressive decoding loop              *)
(*     (src/transformer/transformer.py), run by concurrent requests that   *)
(*     share one model object and the process-wide random generator        *)
(*     (src/server.py);                                                    *)
(*   - Transformer.__init__ and MultiHeadAttention.__init__, the order in  *)
(*     which the constructor creates tensors and checks the configuration; *)
(*   - MultiHeadAttention.forward, as a calculus of tensor shapes.         *)
(* Tensors of the network are abstract: a hidden state is the term that    *)
(* names what it was computed from, a shape is the sequence of its         *)
(* dimensions.                                                             *)
(***************************************************************************)
EXTENDS Integers, Sequences, FiniteSets, TLC

(* ------------------------------ bounds ------------------------------- *)

\* size of the target vocabulary (config.tgt_vocab_size); ids are 0..VocabSize-1
VocabSize == 4

\* largest max_new_tokens a call is made with
MaxNewTokens == 2

Tokens == 0 .. (VocabSize - 1)

\* one outcome of the random generator per vocabulary entry
Uniform == 0 .. (VocabSize - 1)

\* the requests that may run generate concurrently on the shared model
Reqs == {1, 2}

\* the parameter sets (checkpoints) the model may have been loaded with
Checkpoints == {0, 1}

\* the seeds torch.manual_seed is called with
Seeds == {0, 1}

\* the source id sequences a call is made with: <sos>, the query's ids, <eos>
Inputs == {<<1, 3, 2>>, <<1, 3, 0, 2>>}

\* sampled_token before the first draw (Python: the name is unbound)
NoToken == -1

\* a tensor that has not been computed yet
NoTensor == <<>>

VARIABLES
    params,            \* the model's parameters (state dict), shared by all requests
    training,          \* nn.Module.training of the shared model
    rng_seed,          \* global generator: {the seed torch.manual_seed gave it}, {} if seeded from entropy
    rng_pos,           \* global generator: draws made since it was seeded
    rng_stream,        \* global generator: per seed, the outputs revealed so far
    pc,                \* per request: position in generate
    input,             \* per request: argument input
    max_new_tokens,    \* per request: argument max_new_tokens
    start_token_idx,   \* per request: argument start_token_idx
    end_token_idx,     \* per request: argument end_token_idx
    enc_mem,           \* per request: local enc_mem
    generated_tokens,  \* per request: local generated_tokens
    it,                \* per request: iterations of the for loop started
    prob,              \* per request: local prob
    sampled_token,     \* per request: local sampled_token
    result,            \* per request: the returned sequence
    response,          \* per request: the handler's HTTP response
    samples,           \* history: the tokens the request sampled, in order
    draws,             \* history: the generator outputs the request consumed
    run_seed,          \* history: rng_seed when the request entered generate
    n_encode,          \* history: calls of _encode by the request
    n_decode,          \* history: calls of _decode by the request
    mem_read,          \* history: the memory values the request's decodes read
    cfg,               \* constructor: the configuration
    ctor_pc,           \* constructor: position in Transformer.__init__
    blk,               \* constructor: blocks of the current stack built so far
    tensors,           \* constructor: the tensors created so far, in order
    a_pc,              \* attention call: position
    a_mha,             \* attention call: the layer's d_model and n_head
    a_x,               \* attention call: shape of x
    a_qkv,             \* attention call: shapes of the optional q, k, v
    a_out              \* attention call: the result, a shape or an error

genvars == <<params, training, rng_seed, rng_pos, rng_stream, pc, input, max_new_tokens,
             start_token_idx, end_token_idx, enc_mem, generated_tokens, it,
             prob, sampled_token, result, response, samples, draws, run_seed,
             n_encode, n_decode, mem_read>>

ctorvars == <<cfg, ctor_pc, blk, tensors>>

attnvars == <<a_pc, a_mha, a_x, a_qkv, a_out>>

vars == <<genvars, ctorvars, attnvars>>

(* ----------------------------- helpers ------------------------------- *)

RECURSIVE SumSeq(_)
SumSeq(s) == IF s = <<>> THEN 0 ELSE Head(s) + SumSeq(Tail(s))

Range(s) == {s[i] : i \in 1 .. Len(s)}

Last(s) == s[Len(s)]

Min(a, b) == IF a < b THEN a ELSE b

(* ------------------------- the network, abstractly -------------------- *)

\* _encode: the encoder output is a function of the parameters and the source
EncoderOut(p, src) == <<p, src>>

\* _decode: the decoder output is a function of the parameters, the memory
\* and the whole target sequence decoded so far
DecoderOut(p, memory, tgt) == <<p, memory, tgt>>

\* gen + softmax of the last position: a distribution over the vocabulary,
\* kept as its inverse CDF (generator output |-> token). Softmax gives every
\* token a positive probability, so every token is some output's image.
LastProb(dec_out) ==
    LET shift == dec_out[1] + SumSeq(dec_out[2][2]) + SumSeq(dec_out[3])
    IN  [u \in Uniform |-> (shift + u) % VocabSize]

\* torch.multinomial(prob, num_samples=1) on generator output u
Multinomial(pr, u) == pr[u]

(* --------------------------- Transformer.generate --------------------- *)

PerReq(v) == [r \in Reqs |-> v]

Active(r) == pc[r] \notin {"idle", "rejected", "raised", "done", "responded"}

\* a loop bound that is off by one
LoopOffByOne(i, max) == i <= max

\* range(max_new_tokens): another iteration after i of them
LoopContinues(i, max) == i < max

\* the operands of the concatenation swapped
CatFront(g, t) == <<t>> \o g

\* torch.cat([generated_tokens, sampled_token], dim=-1)
Cat(g, t) == Append(g, t)

\* an end test that never succeeds
IsEndNever(t, end) == FALSE

\* sampled_token.item() == end_token_idx
IsEnd(t, end) == t = end

GenInit ==
    /\ params \in Checkpoints
    /\ training \in BOOLEAN
    /\ rng_seed = {}
    /\ rng_pos = 0
    /\ rng_stream = [sd \in Seeds |-> <<>>]
    /\ pc = PerReq("idle")
    /\ input = PerReq(<<>>)
    /\ max_new_tokens = PerReq(0)
    /\ start_token_idx = PerReq(NoToken)
    /\ end_token_idx = PerReq(NoToken)
    /\ enc_mem = PerReq(NoTensor)
    /\ generated_tokens = PerReq(<<>>)
    /\ it = PerReq(0)
    /\ prob = PerReq(NoTensor)
    /\ sampled_token = PerReq(NoToken)
    /\ result = PerReq(<<>>)
    /\ response = PerReq(<<>>)
    /\ samples = PerReq(<<>>)
    /\ draws = PerReq(<<>>)
    /\ run_seed = PerReq({})
    /\ n_encode = PerReq(0)
    /\ n_decode = PerReq(0)
    /\ mem_read = PerReq({})

\* generate(input, max_new_tokens, start_token_idx, end_token_idx) is entered:
\* the arguments are bound and self.eval() clears the training flag.
Call(r, src, max, s, e) ==
    /\ pc[r] = "idle"
    /\ input' = [input EXCEPT ![r] = src]
    /\ max_new_tokens' = [max_new_tokens EXCEPT ![r] = max]
    /\ start_token_idx' = [start_token_idx EXCEPT ![r] = s]
    /\ end_token_idx' = [end_token_idx EXCEPT ![r] = e]
    /\ training' = FALSE
    /\ run_seed' = [run_seed EXCEPT ![r] = rng_seed]
    /\ pc' = [pc EXCEPT ![r] = "encode"]
    /\ UNCHANGED <<ctorvars, attnvars, params, rng_seed, rng_pos, rng_stream, enc_mem, generated_tokens,
                   it, prob, sampled_token, result, response, samples, draws,
                   n_encode, n_decode, mem_read>>

\* enc_mem = self._encode(input, None)
Encode(r) ==
    /\ pc[r] = "encode"
    /\ enc_mem' = [enc_mem EXCEPT ![r] = EncoderOut(params, input[r])]
    /\ n_encode' = [n_encode EXCEPT ![r] = @ + 1]
    /\ pc' = [pc EXCEPT ![r] = "init"]
    /\ UNCHANGED <<ctorvars, attnvars, run_seed, response, params, training, rng_seed, rng_pos, rng_stream, input,
                   max_new_tokens, start_token_idx, end_token_idx,
                   generated_tokens, it, prob, sampled_token, result, samples,
                   draws, n_decode, mem_read>>

\* generated_tokens = torch.tensor([[start_token_idx]])
InitGenerated(r) ==
    /\ pc[r] = "init"
    /\ generated_tokens' = [generated_tokens EXCEPT ![r] = <<start_token_idx[r]>>]
    /\ pc' = [pc EXCEPT ![r] = "loop"]
    /\ UNCHANGED <<ctorvars, attnvars, run_seed, response, params, training, rng_seed, rng_pos, rng_stream, input,
                   max_new_tokens, start_token_idx, end_token_idx, enc_mem, it,
                   prob, sampled_token, result, samples, draws, n_encode,
                   n_decode, mem_read>>

\* for _ in range(max_new_tokens): the next iteration starts, or the loop is
\* exhausted and control falls to the return
LoopTest(r) ==
    /\ pc[r] = "loop"
    /\ IF LoopContinues(it[r], max_new_tokens[r])
         THEN /\ it' = [it EXCEPT ![r] = @ + 1]
              /\ pc' = [pc EXCEPT ![r] = "decode"]
         ELSE /\ it' = it
              /\ pc' = [pc EXCEPT ![r] = "return"]
    /\ UNCHANGED <<ctorvars, attnvars, run_seed, response, params, training, rng_seed, rng_pos, rng_stream, input,
                   max_new_tokens, start_token_idx, end_token_idx, enc_mem,
                   generated_tokens, prob, sampled_token, result, samples,
                   draws, n_encode, n_decode, mem_read>>

\* the encoder run again in every iteration
DecodeReencode(r) ==
    /\ pc[r] = "decode"
    /\ enc_mem' = [enc_mem EXCEPT ![r] = EncoderOut(params, input[r])]
    /\ n_encode' = [n_encode EXCEPT ![r] = @ + 1]
    /\ prob' = [prob EXCEPT ![r] =
                  LastProb(DecoderOut(params, enc_mem[r], generated_tokens[r]))]
    /\ n_decode' = [n_decode EXCEPT ![r] = @ + 1]
    /\ mem_read' = [mem_read EXCEPT ![r] = @ \cup {enc_mem[r]}]
    /\ pc' = [pc EXCEPT ![r] = "sample"]
    /\ UNCHANGED <<ctorvars, attnvars, run_seed, response, params, training, rng_seed, rng_pos,
                   rng_stream, input, max_new_tokens, start_token_idx,
                   end_token_idx, generated_tokens, it, sampled_token, result, samples,
                   draws>>

\* dec_out = self._decode(enc_mem, None, generated_tokens, None)
\* logits = self.dec_block.gen(dec_out); prob = softmax(logits[:, -1, :])
Decode(r) ==
    /\ pc[r] = "decode"
    /\ prob' = [prob EXCEPT ![r] =
                  LastProb(DecoderOut(params, enc_mem[r], generated_tokens[r]))]
    /\ n_decode' = [n_decode EXCEPT ![r] = @ + 1]
    /\ mem_read' = [mem_read EXCEPT ![r] = @ \cup {enc_mem[r]}]
    /\ pc' = [pc EXCEPT ![r] = "sample"]
    /\ UNCHANGED <<ctorvars, attnvars, run_seed, response, params, training, rng_seed, rng_pos, rng_stream, input,
                   max_new_tokens, start_token_idx, end_token_idx, enc_mem,
                   generated_tokens, it, sampled_token, result, samples, draws,
                   n_encode>>

\* The global generator yields u. Seeded, its outputs are a fixed stream that
\* a reseeding replays (rng_stream holds the part revealed so far); seeded
\* from entropy, as in the server, an output is arbitrary and never replayed.
GeneratorYields(u) ==
    IF rng_seed # {}
      THEN LET sd == CHOOSE x \in rng_seed : TRUE
               st == rng_stream[sd]
           IN  /\ rng_pos < Len(st) => u = st[rng_pos + 1]
               /\ rng_stream' = IF rng_pos < Len(st)
                                  THEN rng_stream
                                  ELSE [rng_stream EXCEPT ![sd] = Append(st, u)]
               /\ rng_pos' = rng_pos + 1
      ELSE UNCHANGED <<rng_pos, rng_stream>>

\* the draw taken from a generator of its own, which no seeding reaches
SampleUnseeded(r) ==
    /\ pc[r] = "sample"
    /\ \E u \in Uniform :
          /\ sampled_token' = [sampled_token EXCEPT ![r] = Multinomial(prob[r], u)]
          /\ samples' = [samples EXCEPT ![r] = Append(@, Multinomial(prob[r], u))]
          /\ draws' = [draws EXCEPT ![r] = Append(@, u)]
    /\ pc' = [pc EXCEPT ![r] = "append"]
    /\ UNCHANGED <<ctorvars, attnvars, run_seed, response, params, training, rng_seed, rng_pos,
                   rng_stream, input, max_new_tokens, start_token_idx,
                   end_token_idx, enc_mem, generated_tokens, it, prob, result, n_encode,
                   n_decode, mem_read>>

\* sampled_token = torch.multinomial(prob, num_samples=1)
Sample(r) ==
    /\ pc[r] = "sample"
    /\ \E u \in Uniform :
          /\ GeneratorYields(u)
          /\ sampled_token' = [sampled_token EXCEPT ![r] = Multinomial(prob[r], u)]
          /\ samples' = [samples EXCEPT ![r] = Append(@, Multinomial(prob[r], u))]
          /\ draws' = [draws EXCEPT ![r] = Append(@, u)]
    /\ pc' = [pc EXCEPT ![r] = "append"]
    /\ UNCHANGED <<ctorvars, attnvars, run_seed, response, params, training, rng_seed, input, max_new_tokens,
                   start_token_idx, end_token_idx, enc_mem, generated_tokens,
                   it, prob, result, n_encode, n_decode, mem_read>>

\* the sequence kept on the shared model object (self.generated_tokens): the
\* token lands in the sequence of every call that is in its loop
AppendTokenShared(r) ==
    /\ pc[r] = "append"
    /\ generated_tokens' =
          [q \in Reqs |-> IF generated_tokens[q] # <<>> /\ Active(q)
                            THEN Cat(generated_tokens[q], sampled_token[r])
                            ELSE generated_tokens[q]]
    /\ pc' = [pc EXCEPT ![r] = "check"]
    /\ UNCHANGED <<ctorvars, attnvars, run_seed, response, params, training, rng_seed, rng_pos,
                   rng_stream, input, max_new_tokens, start_token_idx,
                   end_token_idx, enc_mem, it, prob, sampled_token, result, samples,
                   draws, n_encode, n_decode, mem_read>>

\* generated_tokens = torch.cat([generated_tokens, sampled_token], dim=-1)
AppendToken(r) ==
    /\ pc[r] = "append"
    /\ generated_tokens' = [generated_tokens EXCEPT ![r] = Cat(@, sampled_token[r])]
    /\ pc' = [pc EXCEPT ![r] = "check"]
    /\ UNCHANGED <<ctorvars, attnvars, run_seed, response, params, training, rng_seed, rng_pos, rng_stream, input,
                   max_new_tokens, start_token_idx, end_token_idx, enc_mem, it,
                   prob, sampled_token, result, samples, draws, n_encode,
                   n_decode, mem_read>>

\* the break left out: the loop goes on after the end token
CheckEndNoBreak(r) ==
    /\ pc[r] = "check"
    /\ pc' = [pc EXCEPT ![r] = "loop"]
    /\ UNCHANGED <<ctorvars, attnvars, run_seed, response, params, training, rng_seed, rng_pos,
                   rng_stream, input, max_new_tokens, start_token_idx,
                   end_token_idx, enc_mem, generated_tokens, it, prob, sampled_token,
                   result, samples, draws, n_encode, n_decode, mem_read>>

\* if sampled_token.item() == end_token_idx: break
CheckEnd(r) ==
    /\ pc[r] = "check"
    /\ pc' = [pc EXCEPT ![r] = IF IsEnd(sampled_token[r], end_token_idx[r])
                                 THEN "return" ELSE "loop"]
    /\ UNCHANGED <<ctorvars, attnvars, run_seed, response, params, training, rng_seed, rng_pos, rng_stream, input,
                   max_new_tokens, start_token_idx, end_token_idx, enc_mem,
                   generated_tokens, it, prob, sampled_token, result, samples,
                   draws, n_encode, n_decode, mem_read>>

\* return generated_tokens
Return(r) ==
    /\ pc[r] = "return"
    /\ result' = [result EXCEPT ![r] = generated_tokens[r]]
    /\ pc' = [pc EXCEPT ![r] = "done"]
    /\ UNCHANGED <<ctorvars, attnvars, run_seed, response, params, training, rng_seed, rng_pos, rng_stream, input,
                   max_new_tokens, start_token_idx, end_token_idx, enc_mem,
                   generated_tokens, it, prob, sampled_token, samples, draws,
                   n_encode, n_decode, mem_read>>

\* one step of a call that has been entered
Step(r) ==
    \/ Encode(r)
    \/ InitGenerated(r)
    \/ LoopTest(r)
    \/ Decode(r)
    \/ Sample(r)
    \/ AppendToken(r)
    \/ CheckEnd(r)
    \/ Return(r)

\* the model object the server holds: constructed, loaded, idle layers
ModelBuilt ==
    /\ cfg = [d_model |-> 4, n_head |-> 2, n_stack |-> 1]
    /\ ctor_pc = "constructed"
    /\ blk = 0
    /\ tensors = <<>>

NoAttnCall ==
    /\ a_pc = "none"
    /\ a_mha = [d_model |-> 4, n_head |-> 2]
    /\ a_x = [ok |-> FALSE, shape |-> <<>>]
    /\ a_qkv = <<>>
    /\ a_out = [ok |-> FALSE, shape |-> <<>>]

Init == GenInit /\ ModelBuilt /\ NoAttnCall

\* a caller runs generate once, with any arguments
DirectCall(r) ==
    /\ \A q \in Reqs \ {r} : pc[q] = "idle"
    /\ \E src \in Inputs, max \in 0 .. MaxNewTokens, s \in Tokens, e \in Tokens :
          Call(r, src, max, s, e)

Next ==
    \/ \E r \in Reqs : DirectCall(r)
    \/ \E r \in Reqs : Encode(r)
    \/ \E r \in Reqs : InitGenerated(r)
    \/ \E r \in Reqs : LoopTest(r)
    \/ \E r \in Reqs : Decode(r)
    \/ \E r \in Reqs : Sample(r)
    \/ \E r \in Reqs : AppendToken(r)
    \/ \E r \in Reqs : CheckEnd(r)
    \/ \E r \in Reqs : Return(r)

\* One call of Transformer.generate, with any arguments and any draws.
Spec == Init /\ [][Next]_vars


\* generate's defaults start_token_idx=1, end_token_idx=2
DefaultStart == 1

DefaultEnd == 2

(* ----------------------- repeated runs under a seed ------------------- *)

\* torch.manual_seed(sd), before a run: the generator restarts the stream of sd
ManualSeed(sd) ==
    /\ \A r \in Reqs : ~Active(r)
    /\ \E r \in Reqs : pc[r] = "idle"
    /\ rng_seed' = {sd}
    /\ rng_pos' = 0
    /\ UNCHANGED <<ctorvars, attnvars, params, training, rng_stream, pc, input,
                   max_new_tokens, start_token_idx, end_token_idx, enc_mem,
                   generated_tokens, it, prob, sampled_token, result, response,
                   samples, draws, run_seed, n_encode, n_decode, mem_read>>

\* the first run: generate, with the default start marker and any other
\* arguments, right after a seeding
FirstRun(r) ==
    /\ rng_seed # {} /\ rng_pos = 0
    /\ \A q \in Reqs \ {r} : pc[q] = "idle"
    /\ \E src \in Inputs, max \in 0 .. MaxNewTokens, e \in Tokens :
          Call(r, src, max, DefaultStart, e)

\* a repeated run: generate with the arguments of a finished run, right after
\* a seeding
Rerun(r) ==
    /\ rng_seed # {} /\ rng_pos = 0
    /\ \E q \in Reqs \ {r} :
          /\ pc[q] = "done"
          /\ Call(r, input[q], max_new_tokens[q], start_token_idx[q],
                  end_token_idx[q])

SeededNext ==
    \/ \E sd \in Seeds : ManualSeed(sd)
    \/ \E r \in Reqs : FirstRun(r)
    \/ \E r \in Reqs : Rerun(r)
    \/ \E r \in Reqs : Encode(r)
    \/ \E r \in Reqs : InitGenerated(r)
    \/ \E r \in Reqs : LoopTest(r)
    \/ \E r \in Reqs : Decode(r)
    \/ \E r \in Reqs : Sample(r)
    \/ \E r \in Reqs : AppendToken(r)
    \/ \E r \in Reqs : CheckEnd(r)
    \/ \E r \in Reqs : Return(r)

\* the model as its constructor leaves it (nn.Module starts in training mode)
SeededInit == Init /\ training = TRUE

\* Runs of generate on one model, one after the other, each right after the
\* global generator was seeded.
SeededSpec == SeededInit /\ [][SeededNext]_vars

(* ------------------------------ the server ---------------------------- *)

\* model.generate(src_tensor, 100): the bound stands in for the 100
ServerMaxNewTokens == MaxNewTokens

\* the ids of <sos>, <eos> and <pad> in the target vocabulary
Specials == {DefaultStart, DefaultEnd, 0}

\* [idx for idx in res if idx not in [<sos>, <eos>, <pad>]]
Strip(ids) == SelectSeq(ids, LAMBDA t : t \notin Specials)

\* POST /generate without a query: 400
Reject(r) ==
    /\ pc[r] = "idle"
    /\ response' = [response EXCEPT ![r] = <<400>>]
    /\ pc' = [pc EXCEPT ![r] = "rejected"]
    /\ UNCHANGED <<ctorvars, attnvars, params, training, rng_seed, rng_pos,
                   rng_stream, input, max_new_tokens, start_token_idx,
                   end_token_idx, enc_mem, generated_tokens, it, prob,
                   sampled_token, result, samples, draws, run_seed, n_encode,
                   n_decode, mem_read>>

\* POST /generate with a query: the query is tokenised and
\* model.generate(src_tensor, 100) is entered
HandleQuery(r) ==
    \E src \in Inputs : Call(r, src, ServerMaxNewTokens, DefaultStart, DefaultEnd)

\* the markers are stripped from the returned ids and the 200 response is sent
Respond(r) ==
    /\ pc[r] = "done"
    /\ response' = [response EXCEPT ![r] = <<200, Strip(result[r])>>]
    /\ pc' = [pc EXCEPT ![r] = "responded"]
    /\ UNCHANGED <<ctorvars, attnvars, params, training, rng_seed, rng_pos,
                   rng_stream, input, max_new_tokens, start_token_idx,
                   end_token_idx, enc_mem, generated_tokens, it, prob,
                   sampled_token, result, samples, draws, run_seed, n_encode,
                   n_decode, mem_read>>

\* load_model() has put the model in eval mode
ServerInit == Init /\ training = FALSE

ServerNext ==
    \/ \E r \in Reqs : Reject(r)
    \/ \E r \in Reqs : HandleQuery(r)
    \/ \E r \in Reqs : Encode(r)
    \/ \E r \in Reqs : InitGenerated(r)
    \/ \E r \in Reqs : LoopTest(r)
    \/ \E r \in Reqs : Decode(r)
    \/ \E r \in Reqs : Sample(r)
    \/ \E r \in Reqs : AppendToken(r)
    \/ \E r \in Reqs : CheckEnd(r)
    \/ \E r \in Reqs : Return(r)
    \/ \E r \in Reqs : Respond(r)

\* The server: requests are handled concurrently and call generate on the one
\* module-level model.
ServerSpec == ServerInit /\ [][ServerNext]_vars

\* WF: a thread that has entered generate keeps running it.
FairSpec == Spec /\ \A r \in Reqs : WF_vars(Step(r))

(* ------------------------- Transformer.__init__ ----------------------- *)

\* largest d_model, n_head and n_stack of a configuration
MaxDModel == 4

MaxHead == 3

MaxStack == 2

\* the configurations: d_model, n_head >= 1 and at least one block per stack
Configs ==
    [d_model : 1 .. MaxDModel, n_head : 1 .. MaxHead, n_stack : 1 .. MaxStack]

\* assert d_model % n_head == 0
Divisible(d_model, n_head) == d_model % n_head = 0

\* a constructor step that creates tensors and goes on
Creates(at, names, next) ==
    /\ ctor_pc = at
    /\ tensors' = tensors \o names
    /\ ctor_pc' = next
    /\ UNCHANGED <<cfg, blk, genvars, attnvars>>

\* MultiHeadAttention.__init__, up to its assert: an AssertionError leaves
\* Transformer.__init__ too
MhaAssert(at, next) ==
    /\ ctor_pc = at
    /\ ctor_pc' = IF Divisible(cfg.d_model, cfg.n_head) THEN next ELSE "failed"
    /\ UNCHANGED <<cfg, blk, tensors, genvars, attnvars>>

\* the rest of a block; then the next block of the stack, or what follows it
BlockRest(at, names, again, next) ==
    /\ ctor_pc = at
    /\ tensors' = tensors \o names
    /\ IF blk + 1 < cfg.n_stack
         THEN blk' = blk + 1 /\ ctor_pc' = again
         ELSE blk' = 0 /\ ctor_pc' = next
    /\ UNCHANGED <<cfg, genvars, attnvars>>

\* enc_block.p_emb: Embedding(config.src_vocab_size, config.d_model, config.pad_idx)
SrcEmbedding == Creates("enc.emb", <<"enc.emb.weight">>, "enc.pe")

\* enc_block.p_emb: PositionalEncoding(config.d_model, config.dropout, config.src_max_len)
SrcPositional == Creates("enc.pe", <<"enc.pe.table">>, "enc.mha")

\* Encoder(...): a block's MultiHeadAttention
EncMhaAssert == MhaAssert("enc.mha", "enc.mha.linear")

EncMhaLinears == Creates("enc.mha.linear", <<"enc.c_attn", "enc.c_proj">>, "enc.ffn")

\* Encoder(...): a block's feed-forward sublayer
EncBlockRest == BlockRest("enc.ffn", <<"enc.ffn.1", "enc.ffn.2">>, "enc.mha", "dec.emb")

\* dec_block.p_emb: Embedding(config.tgt_vocab_size, config.d_model, config.pad_idx)
TgtEmbedding == Creates("dec.emb", <<"dec.emb.weight">>, "dec.pe")

\* dec_block.p_emb: PositionalEncoding(config.d_model, config.dropout, config.tgt_max_len)
TgtPositional == Creates("dec.pe", <<"dec.pe.table">>, "dec.self")

\* Decoder(...): a block's masked self-attention
DecSelfAssert == MhaAssert("dec.self", "dec.self.linear")

DecSelfLinears ==
    Creates("dec.self.linear", <<"dec.self.c_attn", "dec.self.c_proj">>, "dec.cross")

\* Decoder(...): a block's cross-attention
DecCrossAssert == MhaAssert("dec.cross", "dec.cross.linear")

DecCrossLinears ==
    Creates("dec.cross.linear", <<"dec.cross.c_attn", "dec.cross.c_proj">>, "dec.ffn")

\* Decoder(...): a block's feed-forward sublayer
DecBlockRest == BlockRest("dec.ffn", <<"dec.ffn.1", "dec.ffn.2">>, "dec.self", "gen")

\* dec_block.gen: Generator(config.d_model, config.tgt_vocab_size)
BuildGenerator == Creates("gen", <<"gen.proj">>, "constructed")

\* Transformer(config) is entered with some configuration
CtorInit ==
    /\ cfg \in Configs
    /\ ctor_pc = "enc.emb"
    /\ blk = 0
    /\ tensors = <<>>
    /\ GenInit
    /\ NoAttnCall

CtorNext ==
    \/ SrcEmbedding
    \/ SrcPositional
    \/ EncMhaAssert
    \/ EncMhaLinears
    \/ EncBlockRest
    \/ TgtEmbedding
    \/ TgtPositional
    \/ DecSelfAssert
    \/ DecSelfLinears
    \/ DecCrossAssert
    \/ DecCrossLinears
    \/ DecBlockRest
    \/ BuildGenerator

\* The construction of a Transformer from a configuration.
CtorSpec == CtorInit /\ [][CtorNext]_vars

(* ---------------------- MultiHeadAttention.forward -------------------- *)

\* largest batch size and sequence length of a call
MaxBatch == 2

MaxSeq == 3

RECURSIVE Prod(_)
Prod(shape) == IF shape = <<>> THEN 1 ELSE Head(shape) * Prod(Tail(shape))

Tensor(shape) == [ok |-> TRUE, shape |-> shape]

\* a RuntimeError raised by a tensor operation
Raised == [ok |-> FALSE, shape |-> <<>>]

\* t.view(*shape): the same elements under another shape
View(t, shape) ==
    IF t.ok /\ Prod(t.shape) = Prod(shape) THEN Tensor(shape) ELSE Raised

\* t.transpose(1, 2) of a 4-dimensional tensor
Transpose12(t) ==
    IF t.ok THEN Tensor(<<t.shape[1], t.shape[3], t.shape[2], t.shape[4]>>) ELSE Raised

\* nn.Linear(d_in, d_out) applied to t
Linear(d_in, d_out, t) ==
    IF t.ok /\ Last(t.shape) = d_in
      THEN Tensor([t.shape EXCEPT ![Len(t.shape)] = d_out])
      ELSE Raised

\* ScaledDotProductAttention: softmax(q k^T / sqrt(d_k)) v on
\* (B, n_head, S, d) tensors
Attn(q, k, v) ==
    IF /\ q.ok /\ k.ok /\ v.ok
       /\ q.shape[1] = k.shape[1] /\ k.shape[1] = v.shape[1]
       /\ q.shape[2] = k.shape[2] /\ k.shape[2] = v.shape[2]
       /\ q.shape[4] = k.shape[4]
       /\ k.shape[3] = v.shape[3]
      THEN Tensor(<<q.shape[1], q.shape[2], q.shape[3], v.shape[4]>>)
      ELSE Raised

\* MultiHeadAttention.forward(x, *qkv, mask=None) of a layer mha, on shapes:
\* qkv is <<>> or the three tensors given by the caller
Forward(mha, x, qkv) ==
    LET B == x.shape[1]
        S == x.shape[2]
        E == x.shape[3]
        proj == Linear(mha.d_model, 3 * mha.d_model, x)
        part == IF proj.ok THEN Tensor(<<B, S, mha.d_model>>) ELSE Raised
        q0 == IF qkv # <<>> THEN qkv[1] ELSE part
        k0 == IF qkv # <<>> THEN qkv[2] ELSE part
        v0 == IF qkv # <<>> THEN qkv[3] ELSE part
        heads == <<B, S, mha.n_head, E \div mha.n_head>>
        q == Transpose12(View(q0, heads))
        k == Transpose12(View(k0, heads))
        v == Transpose12(View(v0, heads))
        y == View(Transpose12(Attn(q, k, v)), <<B, S, E>>)
    IN  Linear(mha.d_model, mha.d_model, y)

\* the layers that were constructed: their assert held
Layers ==
    {m \in [d_model : 1 .. MaxDModel, n_head : 1 .. MaxHead] :
        Divisible(m.d_model, m.n_head)}

\* A layer is about to be called: with x alone (self-attention), or, as in the
\* decoder's second attention layer, with the query from the hidden state x
\* and the encoder memory as key and value.
AttnInit ==
    /\ a_pc = "called"
    /\ a_mha \in Layers
    /\ \E B \in 1 .. MaxBatch, S \in 1 .. MaxSeq, Sk \in 1 .. MaxSeq :
          /\ a_x = Tensor(<<B, S, a_mha.d_model>>)
          /\ a_qkv \in {<<>>, <<Tensor(<<B, S, a_mha.d_model>>),
                               Tensor(<<B, Sk, a_mha.d_model>>),
                               Tensor(<<B, Sk, a_mha.d_model>>)>>}
    /\ a_out = Raised
    /\ GenInit
    /\ ModelBuilt

\* the call runs
ForwardCall ==
    /\ a_pc = "called"
    /\ a_out' = Forward(a_mha, a_x, a_qkv)
    /\ a_pc' = IF Forward(a_mha, a_x, a_qkv).ok THEN "returned" ELSE "raised"
    /\ UNCHANGED <<a_mha, a_x, a_qkv, genvars, ctorvars>>

AttnNext == ForwardCall

\* One call of MultiHeadAttention.forward.
AttnSpec == AttnInit /\ [][AttnNext]_vars

(* ------------- generate over the decoder's cross-attention ------------ *)

\* The decoder's second attention layer in a _decode of generate: the query
\* is the hidden state of generated_tokens, key and value are the encoder
\* memory of input; the batch holds one sequence.
CrossAttention(r) ==
    LET hidden == Tensor(<<1, Len(generated_tokens[r]), cfg.d_model>>)
        memory == Tensor(<<1, Len(input[r]), cfg.d_model>>)
    IN  Forward([d_model |-> cfg.d_model, n_head |-> cfg.n_head],
                hidden, <<hidden, memory, memory>>)

\* self._decode(...) returns: the cross-attention went through
DecodeReturns(r) == CrossAttention(r).ok /\ Decode(r)

\* self._decode(...) raises: the RuntimeError of the cross-attention leaves
\* generate
DecodeRaises(r) ==
    /\ pc[r] = "decode"
    /\ ~CrossAttention(r).ok
    /\ n_decode' = [n_decode EXCEPT ![r] = @ + 1]
    /\ pc' = [pc EXCEPT ![r] = "raised"]
    /\ UNCHANGED <<ctorvars, attnvars, params, training, rng_seed, rng_pos,
                   rng_stream, input, max_new_tokens, start_token_idx,
                   end_token_idx, enc_mem, generated_tokens, it, prob,
                   sampled_token, result, response, samples, draws, run_seed,
                   n_encode, mem_read>>

\* the source sequences of a direct call: also a single id
WiredInputs == Inputs \cup {<<3>>}

WiredCall(r) ==
    /\ \A q \in Reqs \ {r} : pc[q] = "idle"
    /\ \E src \in WiredInputs, max \in 0 .. MaxNewTokens, s \in Tokens, e \in Tokens :
          Call(r, src, max, s, e)

WiredNext ==
    \/ \E r \in Reqs : WiredCall(r)
    \/ \E r \in Reqs : Encode(r)
    \/ \E r \in Reqs : InitGenerated(r)
    \/ \E r \in Reqs : LoopTest(r)
    \/ \E r \in Reqs : DecodeReturns(r)
    \/ \E r \in Reqs : DecodeRaises(r)
    \/ \E r \in Reqs : Sample(r)
    \/ \E r \in Reqs : AppendToken(r)
    \/ \E r \in Reqs : CheckEnd(r)
    \/ \E r \in Reqs : Return(r)

\* One call of Transformer.generate, its _decode running the decoder's
\* cross-attention through MultiHeadAttention.forward. Spec above takes
\* _decode to return whatever the lengths: its runs that return are a
\* superset of the runs of WiredSpec that return.
WiredSpec == Init /\ [][WiredNext]_vars

(* ---------------- generate as a function of its draws ----------------- *)

\* The loop of generate from iteration i on, run alone: g is generated_tokens,
\* ds the generator outputs still to come.
RECURSIVE LoopAlone(_, _, _, _, _, _, _)
LoopAlone(p, mem, max, e, g, i, ds) ==
    IF ~LoopContinues(i, max) \/ ds = <<>>
      THEN g
      ELSE LET t == Multinomial(LastProb(DecoderOut(p, mem, g)), Head(ds))
           IN  IF IsEnd(t, e)
                 THEN Cat(g, t)
                 ELSE LoopAlone(p, mem, max, e, Cat(g, t), i + 1, Tail(ds))

\* generate(src, max, s, e) run alone on parameters p with generator outputs ds
RunAlone(p, src, max, s, e, ds) ==
    LoopAlone(p, EncoderOut(p, src), max, e, <<s>>, 0, ds)

(* ------------------------------ claims -------------------------------- *)

Returned(r) == pc[r] \in {"done", "responded"}

HasEnd(r) == end_token_idx[r] \in Range(samples[r])

\* 1-based index of the first sampled token equal to end_token_idx
FirstEnd(r) ==
    CHOOSE k \in 1 .. Len(samples[r]) :
        /\ samples[r][k] = end_token_idx[r]
        /\ \A j \in 1 .. (k - 1) : samples[r][j] # end_token_idx[r]

\* C1, as stated: every returned sequence has at least 2 and at most
\* max_new_tokens + 1 elements.
C1_LengthBetween2AndMaxPlus1 ==
    \A r \in Reqs : Returned(r) =>
        /\ Len(result[r]) >= 2
        /\ Len(result[r]) <= max_new_tokens[r] + 1

\* C1, amended: every returned sequence has at least 1 and at most
\* max_new_tokens + 1 elements, and at least 2 when max_new_tokens >= 1.
C1_LengthBetween1AndMaxPlus1 ==
    \A r \in Reqs : Returned(r) =>
        /\ Len(result[r]) >= 1
        /\ Len(result[r]) <= max_new_tokens[r] + 1
        /\ max_new_tokens[r] >= 1 => Len(result[r]) >= 2

C1_Witness ==
    \E r \in Reqs : /\ Returned(r)
                    /\ max_new_tokens[r] = MaxNewTokens
                    /\ Len(result[r]) = max_new_tokens[r] + 1

\* C2, as stated: a position of the returned sequence that holds end_token_idx
\* is the last position.
C2_EndOnlyLast ==
    \A r \in Reqs : Returned(r) =>
        \A i \in 1 .. Len(result[r]) :
            result[r][i] = end_token_idx[r] => i = Len(result[r])

\* C2, amended: a position of the returned sequence that holds end_token_idx
\* is the last position or the first one (the start marker, when
\* start_token_idx = end_token_idx); no sampled token but the last is
\* end_token_idx.
C2_EndOnlyLastOrStart ==
    \A r \in Reqs : Returned(r) =>
        \A i \in 1 .. Len(result[r]) :
            result[r][i] = end_token_idx[r] =>
                \/ i = Len(result[r])
                \/ i = 1 /\ start_token_idx[r] = end_token_idx[r]

C2_Witness ==
    \E r \in Reqs : /\ Returned(r)
                    /\ Len(result[r]) >= 3
                    /\ Last(result[r]) = end_token_idx[r]
                    /\ start_token_idx[r] # end_token_idx[r]

Truncated(r) ==
    ~HasEnd(r) =>
        /\ result[r] = <<start_token_idx[r]>> \o samples[r]
        /\ Len(samples[r]) = max_new_tokens[r]
        /\ n_decode[r] = max_new_tokens[r]

\* C4: a call never ends in an error, runs at most max_new_tokens steps, and
\* one whose samples hold no end_token_idx returns, as a normal result, a
\* sequence of max_new_tokens + 1 elements.
C4_ReturnsTruncatedNeverFails ==
    \A r \in Reqs :
        /\ pc[r] # "raised"
        /\ it[r] <= max_new_tokens[r]
        /\ Returned(r) /\ ~HasEnd(r) => Len(result[r]) = max_new_tokens[r] + 1

\* The loop itself is bounded: where _decode returns, every call that was
\* entered returns, one without a sampled end_token_idx after exactly
\* max_new_tokens steps (checked under FairSpec).
LoopTerminates ==
    \A r \in Reqs : (pc[r] = "encode") ~> (Returned(r) /\ Truncated(r))

\* the sequence is start_token_idx followed by the tokens sampled so far (the
\* newest one not yet appended while control is between the draw and the cat)
GrownFromSamples(r) ==
    CASE pc[r] \in {"idle", "rejected", "encode", "init"} -> generated_tokens[r] = <<>>
      [] pc[r] = "append" ->
            generated_tokens[r] =
                <<start_token_idx[r]>> \o SubSeq(samples[r], 1, Len(samples[r]) - 1)
      [] OTHER -> generated_tokens[r] = <<start_token_idx[r]>> \o samples[r]

\* a step that changes the sequence creates it as <<start_token_idx>> or
\* appends one id to it, the earlier elements unchanged
GrowsByOne(r) ==
    generated_tokens'[r] # generated_tokens[r] =>
        \/ generated_tokens[r] = <<>> /\ generated_tokens'[r] = <<start_token_idx[r]>>
        \/ /\ Len(generated_tokens'[r]) = Len(generated_tokens[r]) + 1
           /\ SubSeq(generated_tokens'[r], 1, Len(generated_tokens[r]))
                = generated_tokens[r]

\* C9: at every point of the loop generated_tokens is start_token_idx followed
\* by the tokens sampled so far, in order; a step appends exactly one id and
\* changes no earlier element; the returned sequence begins with start_token_idx.
C9_AppendOnlyGrowth ==
    /\ [](\A r \in Reqs : /\ GrownFromSamples(r)
                          /\ Returned(r) => /\ result[r] = generated_tokens[r]
                                            /\ result[r][1] = start_token_idx[r])
    /\ [][\A r \in Reqs : GrowsByOne(r)]_vars

C9_Witness ==
    \E r \in Reqs : /\ pc[r] = "check"
                    /\ Len(generated_tokens[r]) = MaxNewTokens + 1
                    /\ generated_tokens[r] = <<start_token_idx[r]>> \o samples[r]

\* C10: a call runs the encoder exactly once, before its first decode; every
\* decode reads that memory, which stays the encoder's output for the call's
\* input; also when max_new_tokens = 0.
C10_EncoderRunsOnce ==
    \A r \in Reqs :
        /\ pc[r] \in {"idle", "rejected", "encode"} => n_encode[r] = 0 /\ n_decode[r] = 0
        /\ pc[r] \notin {"idle", "rejected", "encode"} =>
              /\ n_encode[r] = 1
              /\ enc_mem[r] = EncoderOut(params, input[r])
        /\ mem_read[r] \subseteq {EncoderOut(params, input[r])}
        /\ n_decode[r] >= 1 => mem_read[r] = {enc_mem[r]}

C10_Witness ==
    \E r \in Reqs : /\ Returned(r)
                    /\ n_decode[r] >= 2
                    /\ n_encode[r] = 1

\* C7: two runs of generate on the same parameters, with the same arguments,
\* each started right after the generator was seeded with the same seed,
\* return the same sequence.
C7_SeededRunsAgree ==
    \A r, q \in Reqs :
        ( /\ Returned(r) /\ Returned(q)
          /\ run_seed[r] = run_seed[q]
          /\ input[r] = input[q]
          /\ max_new_tokens[r] = max_new_tokens[q]
          /\ start_token_idx[r] = start_token_idx[q]
          /\ end_token_idx[r] = end_token_idx[q] )
        => result[r] = result[q]

C7_Witness ==
    \E r, q \in Reqs :
        /\ r # q
        /\ Returned(r) /\ Returned(q)
        /\ run_seed[r] = run_seed[q] /\ run_seed[r] # {}
        /\ Len(result[r]) = MaxNewTokens + 1
        /\ result[r] = result[q]

\* C8: whatever the interleaving of concurrent calls on the shared model, a
\* call returns what generate returns run alone on its arguments and its own
\* draws, and no step writes the model's parameters.
C8_IsolatedRequests ==
    /\ [](\A r \in Reqs : Returned(r) =>
            result[r] = RunAlone(params, input[r], max_new_tokens[r],
                                 start_token_idx[r], end_token_idx[r], draws[r]))
    /\ [][params' = params]_vars

C8_Witness ==
    \E r, q \in Reqs :
        /\ r # q
        /\ Returned(r) /\ Len(result[r]) = MaxNewTokens + 1
        /\ pc[q] = "append" /\ Len(generated_tokens[q]) >= 2
        /\ generated_tokens[q] # SubSeq(result[r], 1, Len(generated_tokens[q]))

\* C5: constructing a Transformer from a configuration with d_model % n_head
\* # 0 fails during construction, before any tensor is created.
C5_FailsBeforeAnyTensor ==
    ~Divisible(cfg.d_model, cfg.n_head) =>
        /\ ctor_pc # "constructed"
        /\ ctor_pc = "failed" => tensors = <<>>

\* C6: MultiHeadAttention.forward returns a tensor of the shape of x, also
\* when key and value are the encoder memory, of another length than x.
C6_ForwardPreservesShape ==
    a_pc # "called" => a_out.ok /\ a_out.shape = a_x.shape

====
